---- MODULE Spec2Model ----
(***************************************************************************)
(* A model of bubble_sort(sequence, reverse, in_place) of bubble_sort.py.  *)
(* One call is a run of the program counter pc through the function body;  *)
(* the driver may feed the returned list to a second call with the same    *)
(* flags (bubble_sort(bubble_sort(S))).                                    *)
(*                                                                         *)
(* Objects: "in" is the caller's container, "new" the list allocated by    *)
(* list(sequence).  arr is a reference to one of them, so a write through  *)
(* arr is seen by the caller exactly when arr aliases "in".                *)
(* Items carry their type t, their ordering key k and the position id they *)
(* had in the input; the code only ever looks at t and k.                  *)
(* Indices i, j are 0-based as in the source; At/Swap convert.             *)
(***************************************************************************)
EXTENDS Integers, Sequences, FiniteSets

VARIABLES kind, reverse, in_place, heap, orig, arr, n, i, j, swapped, pc,
          error, message, ret, comparisons, swaps, equalSwaps, passes, second,
          prev

\* kind        what was passed as `sequence`: "scalar" (no __iter__), "tuple"
\*             (iterable, not a list) or "list"
\* reverse, in_place   the keyword arguments
\* heap        contents of the objects "in" (the caller's) and "new" (line 76)
\* orig        contents of the caller's container when the call was made
\* arr         the object the local arr refers to: "none", "in" or "new"
\* n, i, j, swapped    the locals of the same names
\* pc          "validate", "mode", "len", "outer", "inner", "check", and the
\*             two ends of a call, "returned" and "raised"
\* error       which TypeError was raised: "none", "NotIterable" (line 67),
\*             "InvalidMode" (line 72) or "Incomparable" (line 95)
\* message     positions and reprs carried by the line 95 message
\* ret         the object returned: "none", "in" or "new"
\* comparisons, swaps, equalSwaps, passes   counts of line 92 evaluations,
\*             line 100 swaps, swaps of equal values, outer iterations begun
\* second      TRUE in the call made on the first call's result
\* prev        the list the first call returned
vars == <<kind, reverse, in_place, heap, orig, arr, n, i, j, swapped, pc,
          error, message, ret, comparisons, swaps, equalSwaps, passes, second,
          prev>>

\* Bounds of the model.
MaxLen == 4
MaxKey == 3

\* The values an element may have: numbers 1..MaxKey and one string.
Values == [t : {"num"}, k : 1..MaxKey] \cup {[t |-> "str", k |-> 1]}

\* The kinds of object passed as `sequence`.
Kinds == {"scalar", "tuple", "list"}

SeqsUpTo(S, m) == UNION {[1..len -> S] : len \in 0..m}

\* An input container: element p is tagged with its position p.
Tag(vs) == [p \in 1..Len(vs) |-> [t |-> vs[p].t, k |-> vs[p].k, id |-> p]]

\* No comparison has failed.
NoMessage ==
    [posL |-> -1, posR |-> -1, left |-> [t |-> "", k |-> 0], right |-> [t |-> "", k |-> 0]]

\* hasattr(sequence, "__iter__")
IsIterable(knd) == knd # "scalar"

\* Mutant: isinstance(sequence, (list, tuple)).
IsListOrTuple(knd) == knd \in {"list", "tuple"}

\* isinstance(sequence, list)
IsList(knd) == knd = "list"

\* Mutant: if n < 1.
NothingToSortBelowOne(len) == len < 1

\* if n < 2: nothing to sort.
NothingToSort(len) == len < 2

\* list(sequence): a new list with the same elements in the same order.
ListCopy(s) == [p \in 1..Len(s) |-> s[p]]

\* arr[idx] with the source's 0-based idx.
At(a, idx) == a[idx + 1]

\* Whether l > r can be evaluated at all (else Python raises TypeError).
Comparable(l, r) == l.t = r.t

\* l > r for two comparable items.
Gt(l, r) == l.k > r.k

\* a ^ b on booleans.
Xor(a, b) == (a /\ ~b) \/ (~a /\ b)

\* Mutant: the reverse flag is dropped from the decision.
ShouldSwapIgnoringReverse(l, r, rev) == Gt(l, r)

\* should_swap = (arr[j] > arr[j + 1]) ^ reverse
ShouldSwap(l, r, rev) == Xor(Gt(l, r), rev)

\* Mutant: range(0, n - 1), a bound that does not shrink.
InnerBoundFixed(len, pass) == len - 1

\* range(0, n - i - 1): the exclusive upper bound of j in pass i.
InnerBound(len, pass) == len - pass - 1

\* repr of an element: its type and value, not its identity.
Repr(x) == [t |-> x.t, k |-> x.k]

\* Mutant: the message counts positions from 1.
CompareErrorMessageOneBased(a, jj) ==
    [posL |-> jj + 1, posR |-> jj + 2, left |-> Repr(At(a, jj)), right |-> Repr(At(a, jj + 1))]

\* The message of the TypeError raised for a failed comparison at jj.
CompareErrorMessage(a, jj) ==
    [posL |-> jj, posR |-> jj + 1, left |-> Repr(At(a, jj)), right |-> Repr(At(a, jj + 1))]

\* arr[j], arr[j + 1] = arr[j + 1], arr[j]
Swap(a, jj) == [a EXCEPT ![jj + 1] = a[jj + 2], ![jj + 2] = a[jj + 1]]

Init ==
    /\ kind \in Kinds
    /\ reverse \in BOOLEAN
    /\ in_place \in BOOLEAN
    /\ \E vs \in SeqsUpTo(Values, MaxLen) :
          /\ kind = "scalar" => vs = <<>>
          /\ heap = [in |-> Tag(vs), new |-> <<>>]
          /\ orig = Tag(vs)
    /\ arr = "none"
    /\ n = 0
    /\ i = 0
    /\ j = 0
    /\ swapped = FALSE
    /\ pc = "validate"
    /\ error = "none"
    /\ message = NoMessage
    /\ ret = "none"
    /\ comparisons = 0
    /\ swaps = 0
    /\ equalSwaps = 0
    /\ passes = 0
    /\ second = FALSE
    /\ prev = <<>>

\* Lines 66-67: the iterability guard.
Validate ==
    /\ pc = "validate"
    /\ IF IsIterable(kind)
         THEN pc' = "mode" /\ error' = error
         ELSE pc' = "raised" /\ error' = "NotIterable"
    /\ UNCHANGED <<kind, reverse, in_place, heap, orig, arr, n, i, j, swapped,
                   message, ret, comparisons, swaps, equalSwaps, passes, second, prev>>

\* Mutant: arr = sequence in both branches (no copy is made).
ModeNeverCopies ==
    /\ pc = "mode"
    /\ IF in_place /\ ~IsList(kind)
         THEN /\ pc' = "raised"
              /\ error' = "InvalidMode"
              /\ UNCHANGED <<heap, arr>>
         ELSE /\ arr' = "in"
              /\ pc' = "len"
              /\ UNCHANGED <<heap, error>>
    /\ UNCHANGED <<kind, reverse, in_place, orig, n, i, j, swapped,
                   message, ret, comparisons, swaps, equalSwaps, passes, second, prev>>

\* Mutant: arr = list(sequence) in both branches (a copy is always made).
ModeAlwaysCopies ==
    /\ pc = "mode"
    /\ IF in_place /\ ~IsList(kind)
         THEN /\ pc' = "raised"
              /\ error' = "InvalidMode"
              /\ UNCHANGED <<heap, arr>>
         ELSE /\ heap' = [heap EXCEPT !.new = ListCopy(heap.in)]
              /\ arr' = "new"
              /\ pc' = "len"
              /\ error' = error
    /\ UNCHANGED <<kind, reverse, in_place, orig, n, i, j, swapped,
                   message, ret, comparisons, swaps, equalSwaps, passes, second, prev>>

\* Lines 70-76: alias the caller's list or copy the sequence.
Mode ==
    /\ pc = "mode"
    /\ IF in_place
         THEN IF IsList(kind)
                THEN /\ arr' = "in"
                     /\ pc' = "len"
                     /\ UNCHANGED <<heap, error>>
                ELSE /\ pc' = "raised"
                     /\ error' = "InvalidMode"
                     /\ UNCHANGED <<heap, arr>>
         ELSE /\ heap' = [heap EXCEPT !.new = ListCopy(heap.in)]
              /\ arr' = "new"
              /\ pc' = "len"
              /\ error' = error
    /\ UNCHANGED <<kind, reverse, in_place, orig, n, i, j, swapped,
                   message, ret, comparisons, swaps, equalSwaps, passes, second, prev>>

\* Lines 78-81: n = len(arr); return arr when n < 2.
Length ==
    /\ pc = "len"
    /\ n' = Len(heap[arr])
    /\ IF NothingToSort(n')
         THEN pc' = "returned" /\ ret' = arr
         ELSE pc' = "outer" /\ ret' = ret
    /\ i' = 0
    /\ UNCHANGED <<kind, reverse, in_place, heap, orig, arr, j, swapped,
                   error, message, comparisons, swaps, equalSwaps, passes, second, prev>>

\* Lines 87-88 (and 107 when range(n) is exhausted): start pass i.
Outer ==
    /\ pc = "outer"
    /\ IF i < n
         THEN /\ swapped' = FALSE
              /\ j' = 0
              /\ passes' = passes + 1
              /\ pc' = "inner"
              /\ ret' = ret
         ELSE /\ pc' = "returned"
              /\ ret' = arr
              /\ UNCHANGED <<swapped, j, passes>>
    /\ UNCHANGED <<kind, reverse, in_place, heap, orig, arr, n, i,
                   error, message, comparisons, swaps, equalSwaps, second, prev>>

\* Lines 90-101: one iteration of the inner loop, or its end.
Inner ==
    /\ pc = "inner"
    /\ IF j < InnerBound(n, i)
         THEN LET a == heap[arr]
                  l == At(a, j)
                  r == At(a, j + 1)
              IN  /\ comparisons' = comparisons + 1
                  /\ IF ~Comparable(l, r)
                       THEN /\ pc' = "raised"
                            /\ error' = "Incomparable"
                            /\ message' = CompareErrorMessage(a, j)
                            /\ UNCHANGED <<heap, swapped, j, swaps, equalSwaps>>
                       ELSE /\ IF ShouldSwap(l, r, reverse)
                                 THEN /\ heap' = [heap EXCEPT ![arr] = Swap(a, j)]
                                      /\ swapped' = TRUE
                                      /\ swaps' = swaps + 1
                                      /\ equalSwaps' = IF l.k = r.k THEN equalSwaps + 1
                                                                    ELSE equalSwaps
                                 ELSE UNCHANGED <<heap, swapped, swaps, equalSwaps>>
                            /\ j' = j + 1
                            /\ UNCHANGED <<pc, error, message>>
         ELSE /\ pc' = "check"
              /\ UNCHANGED <<heap, swapped, j, error, message, comparisons, swaps,
                             equalSwaps>>
    /\ UNCHANGED <<kind, reverse, in_place, orig, arr, n, i, ret, passes, second, prev>>

\* Mutant: the break is taken after every pass.
CheckAlwaysBreaks ==
    /\ pc = "check"
    /\ pc' = "returned"
    /\ ret' = arr
    /\ UNCHANGED <<kind, reverse, in_place, heap, orig, arr, n, i, j, swapped,
                   error, message, comparisons, swaps, equalSwaps, passes, second, prev>>

\* Lines 103-107: break and return when the pass swapped nothing.
Check ==
    /\ pc = "check"
    /\ IF ~swapped
         THEN pc' = "returned" /\ ret' = arr /\ i' = i
         ELSE pc' = "outer" /\ ret' = ret /\ i' = i + 1
    /\ UNCHANGED <<kind, reverse, in_place, heap, orig, arr, n, j, swapped,
                   error, message, comparisons, swaps, equalSwaps, passes, second, prev>>

\* bubble_sort(bubble_sort(S)): the returned list is the argument of a second
\* call with the same flags.
Reinvoke ==
    /\ pc = "returned"
    /\ ~second
    /\ second' = TRUE
    /\ prev' = heap[ret]
    /\ kind' = "list"
    /\ heap' = [in |-> Tag(heap[ret]), new |-> <<>>]
    /\ orig' = Tag(heap[ret])
    /\ arr' = "none"
    /\ n' = 0
    /\ i' = 0
    /\ j' = 0
    /\ swapped' = FALSE
    /\ pc' = "validate"
    /\ ret' = "none"
    /\ comparisons' = 0
    /\ swaps' = 0
    /\ equalSwaps' = 0
    /\ passes' = 0
    /\ UNCHANGED <<reverse, in_place, error, message>>

Next == Validate \/ Mode \/ Length \/ Outer \/ Inner \/ Check \/ Reinvoke

Spec == Init /\ [][Next]_vars


(***************************************************************************)
(* Vocabulary of the properties.                                           *)
(***************************************************************************)
Returned == pc = "returned"
Raised == pc = "raised"

\* l and r are in order for the selected direction.
InOrder(l, r, rev) == IF rev THEN l.k >= r.k ELSE l.k <= r.k

IsSortedDir(a, rev) ==
    \A p \in 1..(Len(a) - 1) : Comparable(a[p], a[p + 1]) /\ InOrder(a[p], a[p + 1], rev)

\* Same elements (identities included), possibly in another order.
IsPermutation(a, b) ==
    /\ Len(a) = Len(b)
    /\ {a[p] : p \in 1..Len(a)} = {b[p] : p \in 1..Len(b)}
    /\ Cardinality({a[p] : p \in 1..Len(a)}) = Len(a)

PairwiseComparable(a) == \A p, q \in 1..Len(a) : Comparable(a[p], a[q])

\* The list as == sees it: values without identities.
ValuesOf(a) == [p \in 1..Len(a) |-> Repr(a[p])]

\* Equal-valued elements appear in the order of their input positions.
KeepsEqualOrder(a) ==
    \A p, q \in 1..Len(a) : (p < q /\ a[p].t = a[q].t /\ a[p].k = a[q].k) => a[p].id < a[q].id

\* The passes that have run to their end: all those started, but the one
\* in progress or cut short by a failed comparison.
CompletedPasses ==
    IF pc = "inner" \/ (pc = "raised" /\ error = "Incomparable") THEN passes - 1 ELSE passes

\* The last m positions hold what the sorted list holds there.
Placed(a, m, rev) ==
    \A p \in (Len(a) - m + 1)..Len(a) : \A q \in 1..(p - 1) : InOrder(a[q], a[p], rev)

\* C1: whenever a call returns, the returned list is a permutation of the
\* input and every adjacent pair is in order for the selected direction
\* (left <= right ascending, left >= right with reverse).
C1_SortedPermutation ==
    Returned => IsPermutation(heap[ret], orig) /\ IsSortedDir(heap[ret], reverse)

C1_Witness ==
    Returned /\ reverse /\ Len(orig) >= 3 /\ swaps >= 2 /\ heap[ret] # orig

\* C2: the sort never swaps a pair of equal elements, and equal-valued
\* elements of the returned list keep the relative order they had in the
\* input, in both directions.
C2_Stable ==
    /\ equalSwaps = 0
    /\ Returned => KeepsEqualOrder(heap[ret])

\* C3: with in_place false the caller's container never changes, whatever
\* the outcome, and the returned list is another object.
C3_CopyLeavesInputAlone ==
    ~in_place => /\ heap.in = orig
                 /\ Returned => ret = "new"

C3_Witness ==
    ~in_place /\ Returned /\ kind = "list" /\ swaps >= 1 /\ heap.new # heap.in

\* C4: with in_place true on a list the call returns the very object it was
\* given, for every length, and that object then holds the sorted permutation
\* of its original contents.
C4_InPlaceIdentity ==
    (in_place /\ Returned) =>
        /\ ret = "in"
        /\ IsPermutation(heap.in, orig)
        /\ IsSortedDir(heap.in, reverse)

C4_Witness ==
    in_place /\ Returned /\ swaps >= 1 /\ heap.in # orig

\* C5: in_place on a non-list fails with the invalid-mode error, a
\* non-iterable fails with the not-iterable error (checked first), and in
\* both cases nothing was compared, written or allocated.
C5_GuardsBeforeWork ==
    /\ (Raised /\ error \in {"InvalidMode", "NotIterable"}) =>
          /\ comparisons = 0
          /\ swaps = 0
          /\ passes = 0
          /\ heap.in = orig
          /\ heap.new = <<>>
          /\ arr = "none"
    /\ (pc \in {"returned", "raised"} /\ kind = "scalar") => error = "NotIterable"
    /\ (pc \in {"returned", "raised"} /\ kind = "tuple" /\ in_place) =>
          error = "InvalidMode"

C5_Witness ==
    Raised /\ error = "InvalidMode" /\ kind = "tuple" /\ Len(orig) >= 2

\* C6: a comparison that faults at (j, j+1) ends the call there: the error
\* names j, j+1 and the two values stored there, the raising step writes
\* nothing, nothing runs after it, and the working array is still a
\* permutation of the input (the caller's own list in in-place mode).
C6_FaultAbortsInPlace ==
    /\ [](Raised /\ error = "Incomparable" =>
            /\ message.posL = j
            /\ message.posR = j + 1
            /\ message.left = Repr(At(heap[arr], j))
            /\ message.right = Repr(At(heap[arr], j + 1))
            /\ ~Comparable(At(heap[arr], j), At(heap[arr], j + 1))
            /\ IsPermutation(heap[arr], orig)
            /\ in_place => arr = "in")
    /\ [][/\ pc' = "raised" => heap' = heap /\ swaps' = swaps
          /\ pc # "raised"]_vars

C6_Witness ==
    Raised /\ error = "Incomparable" /\ in_place /\ swaps >= 1 /\ message.posL >= 1

\* C7: an input of length n >= 2 already sorted in the selected direction
\* (duplicates allowed) takes one pass of n-1 comparisons, no swap, and no
\* second pass.
C7_OnePassWhenSorted ==
    (Returned /\ Len(orig) >= 2 /\ IsSortedDir(orig, reverse)) =>
        /\ passes = 1
        /\ comparisons = Len(orig) - 1
        /\ swaps = 0

\* C8: sorting the returned list again with the same flags returns a list
\* equal to it, element by element (equal as == sees the elements: by type
\* and value); in ascending order the second call moves nothing at all.
C8_Idempotent ==
    (second /\ Returned) =>
        /\ ValuesOf(heap[ret]) = ValuesOf(prev)
        /\ ~reverse => heap[ret] = orig /\ swaps = 0

C8_Witness ==
    /\ second /\ Returned /\ reverse
    /\ \E p, q \in 1..Len(prev) : prev[p].k # prev[q].k
    /\ equalSwaps >= 1

\* C9: an input of length 0 or 1 is returned as it is, with no pass, no
\* comparison, no write and no error, whatever the flags and whatever the
\* element.
C9_TrivialInput ==
    (Len(orig) < 2 /\ IsIterable(kind) /\ (in_place => IsList(kind))) =>
        /\ passes = 0
        /\ comparisons = 0
        /\ swaps = 0
        /\ pc # "raised"
        /\ error = "none"
        /\ Returned => heap[ret] = orig

C9_Witness ==
    Returned /\ Len(orig) = 1 /\ orig[1].t = "str" /\ in_place /\ reverse

\* C10: once k passes have run to their end, the last k positions hold
\* their final values (nothing before them is out of order with them), and
\* no later step compares or writes them.
C10_PassInvariant ==
    /\ [](arr # "none" =>
            /\ Placed(heap[arr], CompletedPasses, reverse)
            /\ (pc = "inner" /\ j < InnerBound(n, i)) => j + 2 <= n - CompletedPasses)
    /\ [][arr # "none" /\ arr' = arr =>
            \A p \in (Len(heap[arr]) - CompletedPasses + 1)..Len(heap[arr]) :
                heap'[arr][p] = heap[arr][p]]_vars

C10_Witness ==
    pc = "inner" /\ CompletedPasses = 2 /\ j = 0 /\ n = 4 /\ reverse /\ swaps >= 3

====
